---- MODULE Spec2Model ----
(***************************************************************************)
(* services/update_imports.py: walk the current directory, and in every    *)
(* file whose name ends with ".go" replace the old import path prefix by   *)
(* the new one, writing a file back only when its content changed.         *)
(*                                                                         *)
(* Text is a sequence of one-character strings; a file name is text; a     *)
(* path is a sequence of names.  The file system holds directories and     *)
(* regular files (symbolic links are a non-goal of the specification).     *)
(* A read, an open for writing and a write can each fail, as the           *)
(* environment decides; directories can always be listed.                  *)
(***************************************************************************)
EXTENDS Integers, Sequences, FiniteSets, TLC

VARIABLES fs, pc, run, stack, go_files, idx, content, updated_content, ret,
          updated_count, stdout, orig, start, prev, wopened, attempts, fails,
          errs, results

vars == <<fs, pc, run, stack, go_files, idx, content, updated_content, ret,
          updated_count, stdout, orig, start, prev, wopened, attempts, fails,
          errs, results>>

(* ------------------------------ bounds --------------------------------- *)
\* Files present in the initial tree.
MaxFiles == 2
\* Fragments that make up the contents of the initial tree, all files together.
MaxParts == 3
\* I/O failures the environment injects, both runs together.
MaxFail == 1
\* A write that fails leaves fewer than MaxCut characters in the file, or all
\* but at most MaxCut of them.
MaxCut == 1

(* ------------------------- program constants --------------------------- *)
OLD_PATH == <<"g","i","t","h","u","b",".","c","o","m","/","l","e","n","d","i","n","g","p","l","a","t","f","o","r","m","/","l","o","s","/","s","e","r","v","i","c","e","s">>

NEW_PATH == <<"g","i","t","h","u","b",".","c","o","m","/","h","u","u","h","o","a","i","t","/","l","o","s","-","d","e","m","o","/","s","e","r","v","i","c","e","s">>

EXT == <<".","g","o">>

\* The name of a directory itself.
DOT == <<".">>

\* The argument of os.walk: the current directory.
WalkRoot == <<DOT>>

(* --------------------------- string functions -------------------------- *)
\* pat occurs in s at index i.
OccursAt(s, pat, i) ==
    /\ i >= 1
    /\ i + Len(pat) - 1 <= Len(s)
    /\ SubSeq(s, i, i + Len(pat) - 1) = pat

\* Mutant of Find: the search starts one character too far.
FindSkipFirst(s, pat, i) ==
    LET hits == { j \in (i + 1)..(Len(s) - Len(pat) + 1) : OccursAt(s, pat, j) }
    IN  IF hits = {} THEN 0 ELSE CHOOSE j \in hits : \A k \in hits : j <= k

\* str.find from index i: the leftmost index >= i where pat occurs, 0 if none.
Find(s, pat, i) ==
    LET hits == { j \in i..(Len(s) - Len(pat) + 1) : OccursAt(s, pat, j) }
    IN  IF hits = {} THEN 0 ELSE CHOOSE j \in hits : \A k \in hits : j <= k

\* Mutant of ReplaceFrom: only the first occurrence is replaced
\* (str.replace(old, new, 1)).
ReplaceFirstFrom(s, old, new, i) ==
    LET j == Find(s, old, i)
    IN  IF j = 0 THEN SubSeq(s, i, Len(s))
        ELSE SubSeq(s, i, j - 1) \o new \o SubSeq(s, j + Len(old), Len(s))

\* str.replace(old, new) from index i on: leftmost occurrence first, the scan
\* resumes after the replaced occurrence.
RECURSIVE ReplaceFrom(_, _, _, _)
ReplaceFrom(s, old, new, i) ==
    LET j == Find(s, old, i)
    IN  IF j = 0 THEN SubSeq(s, i, Len(s))
        ELSE SubSeq(s, i, j - 1) \o new \o ReplaceFrom(s, old, new, j + Len(old))

str_replace(s, old, new) == ReplaceFrom(s, old, new, 1)

\* str.endswith
endswith(s, suffix) ==
    /\ Len(s) >= Len(suffix)
    /\ SubSeq(s, Len(s) - Len(suffix) + 1, Len(s)) = suffix

\* os.path.join(root, file), on paths as sequences of names
path_join(root, file) == Append(root, file)

(* ----------------------------- file system ----------------------------- *)
N_w    == <<"w">>
N_a    == <<"a">>
N_hid  == <<".","h">>
N_dgo  == <<"d",".","g","o">>
N_xgo  == <<"x",".","g","o">>
N_ygo  == <<"y",".","g","o">>
N_mgo  == <<"m","g","o">>
N_ogo  == <<"o",".","g","o">>

\* The current working directory, as an absolute path.
Cwd == <<N_w>>

\* Directories: the file system root, the working directory, a plain and a
\* hidden subdirectory, and a directory named d.go inside the hidden one.
Dirs == { <<>>, <<N_w>>, <<N_w, N_a>>, <<N_w, N_hid>>, <<N_w, N_hid, N_dgo>> }

\* Places where the initial tree may hold a regular file.
FilePaths == { <<N_w, N_xgo>>,                  \* ./x.go
               <<N_w, N_hid, N_dgo, N_ygo>>,    \* ./.h/d.go/y.go
               <<N_w, N_a, N_mgo>>,             \* ./a/mgo  (no dot)
               <<N_ogo>> }                      \* ../o.go  (outside the tree)

\* The order in which a directory lists its entries (one admissible order).
NameOrder == << N_xgo, N_ygo, N_mgo, N_ogo, N_w, N_a, N_hid, N_dgo >>

\* The file that a path starting with "." names when it is opened.
Resolve(p) == Cwd \o Tail(p)

\* Fragments of file content: the old path, and the old path short of its
\* last name (text that starts like it and does not hold it).
HEAD == SubSeq(OLD_PATH, 1, Len(OLD_PATH) - 8)
Fragments == { OLD_PATH, HEAD }

\* The tree that holds the files of E, empty, after the fragments of q are
\* appended to them in turn; q is a sequence of <<path, fragment>>.
RECURSIVE Build(_, _)
Build(E, q) ==
    IF q = <<>> THEN [p \in E |-> <<>>]
    ELSE LET t == Build(E, SubSeq(q, 1, Len(q) - 1))
             e == q[Len(q)]
         IN  [t EXCEPT ![e[1]] = @ \o e[2]]

\* The initial trees: at most MaxFiles files, made of at most MaxParts fragments.
Trees ==
    UNION { { Build(E, q) : q \in UNION { [1..n -> E \X Fragments] : n \in 0..MaxParts } } :
            E \in { T \in SUBSET FilePaths : Cardinality(T) <= MaxFiles } }

(* ------------------------------- Init ---------------------------------- *)
Init ==
    /\ fs \in Trees
    /\ orig = fs
    /\ start = fs
    /\ prev = [ran |-> FALSE, fs |-> fs, stdout |-> <<>>]
    /\ pc = "walk"
    /\ run = "first"
    /\ stack = <<WalkRoot>>
    /\ go_files = <<>>
    /\ idx = 1
    /\ content = <<>>
    /\ updated_content = <<>>
    /\ ret = FALSE
    /\ updated_count = 0
    /\ stdout = <<>>
    /\ wopened = {}
    /\ attempts = <<>>
    /\ fails = 0
    /\ errs = {}
    /\ results = <<>>

(* ------------------------------ main: walk ----------------------------- *)
\* Mutant of ListDirs: hidden directories are left out.
ListDirsNotHidden(d) ==
    SelectSeq(NameOrder, LAMBDA n : Append(d, n) \in Dirs /\ n[1] # ".")

\* The entries of directory d (absolute), in listing order: subdirectories / files.
ListDirs(d)  == SelectSeq(NameOrder, LAMBDA n : Append(d, n) \in Dirs)
ListFiles(d) == SelectSeq(NameOrder, LAMBDA n : Append(d, n) \in DOMAIN fs)

\* Mutant of IsGoFile: the dot of the extension is forgotten.
IsGoFileNoDot(file) == endswith(file, <<"g", "o">>)

\* Line 34: the filter on a file name.
IsGoFile(file) == endswith(file, EXT)

\* Lines 32-35, one directory that os.walk yields (top-down): the names of its
\* files that pass the filter are joined to it and appended to go_files, and
\* its subdirectories are visited next.
WalkDir ==
    /\ pc = "walk"
    /\ stack # <<>>
    /\ LET root  == Head(stack)
           dirs  == ListDirs(Resolve(root))
           files == SelectSeq(ListFiles(Resolve(root)), IsGoFile)
       IN  /\ go_files' = go_files \o [i \in 1..Len(files) |-> path_join(root, files[i])]
           /\ stack' = [i \in 1..Len(dirs) |-> path_join(root, dirs[i])] \o Tail(stack)
    /\ UNCHANGED <<fs, pc, run, idx, content, updated_content, ret, updated_count,
                   stdout, orig, start, prev, wopened, attempts, fails, errs, results>>

\* Line 37: the walk is over; the count starts at 0.
WalkEnd ==
    /\ pc = "walk"
    /\ stack = <<>>
    /\ updated_count' = 0
    /\ idx' = 1
    /\ pc' = "loop"
    /\ UNCHANGED <<fs, run, stack, go_files, content, updated_content, ret,
                   stdout, orig, start, prev, wopened, attempts, fails, errs, results>>

(* ------------------------ update_imports_in_file ----------------------- *)
\* The argument of the call in progress, and the file it names.
filepath == go_files[idx]
target == Resolve(filepath)

\* Mutant of ForNext: the loop stops one file short.
ForNextShort ==
    /\ pc = "loop"
    /\ IF idx < Len(go_files)
       THEN /\ pc' = "read"
            /\ attempts' = Append(attempts, filepath)
       ELSE /\ pc' = "summary"
            /\ UNCHANGED attempts
    /\ UNCHANGED <<fs, run, stack, go_files, idx, content, updated_content, ret,
                   updated_count, stdout, orig, start, prev, wopened, fails, errs, results>>

\* Line 38-39: the next file of the list is passed to update_imports_in_file,
\* or the loop ends.
ForNext ==
    /\ pc = "loop"
    /\ IF idx <= Len(go_files)
       THEN /\ pc' = "read"
            /\ attempts' = Append(attempts, filepath)
       ELSE /\ pc' = "summary"
            /\ UNCHANGED attempts
    /\ UNCHANGED <<fs, run, stack, go_files, idx, content, updated_content, ret,
                   updated_count, stdout, orig, start, prev, wopened, fails, errs, results>>

\* Lines 9-10: the whole file is read.
ReadOk ==
    /\ pc = "read"
    /\ target \in DOMAIN fs
    /\ content' = fs[target]
    /\ pc' = "replace"
    /\ UNCHANGED <<fs, run, stack, go_files, idx, updated_content, ret, updated_count,
                   stdout, orig, start, prev, wopened, attempts, fails, errs, results>>

\* Lines 9-10 raise: the file cannot be opened, read or decoded.
ReadFail ==
    /\ pc = "read"
    /\ fails < MaxFail
    /\ fails' = fails + 1
    /\ errs' = errs \cup {<<filepath, "read">>}
    /\ pc' = "except"
    /\ UNCHANGED <<fs, run, stack, go_files, idx, content, updated_content, ret,
                   updated_count, stdout, orig, start, prev, wopened, attempts, results>>

\* Lines 13-16: the replacement.
Substitute(text) == str_replace(text, OLD_PATH, NEW_PATH)

Replace ==
    /\ pc = "replace"
    /\ updated_content' = Substitute(content)
    /\ pc' = "compare"
    /\ UNCHANGED <<fs, run, stack, go_files, idx, content, ret, updated_count,
                   stdout, orig, start, prev, wopened, attempts, fails, errs, results>>

\* Mutant of Changed: the file is written whether or not it changed.
ChangedAlways(before, after) == TRUE

\* Line 19: the condition under which the file is written.
Changed(before, after) == after # before

\* Lines 19 and 24: write only if the content changed, else return False.
Compare ==
    /\ pc = "compare"
    /\ IF Changed(content, updated_content)
       THEN /\ pc' = "open_w"
            /\ UNCHANGED <<ret, content, updated_content, results>>
       ELSE /\ pc' = "returned"
            /\ ret' = FALSE
            /\ results' = Append(results, FALSE)
            /\ content' = <<>>
            /\ updated_content' = <<>>
    /\ UNCHANGED <<fs, run, stack, go_files, idx, updated_count,
                   stdout, orig, start, prev, wopened, attempts, fails, errs>>

\* Line 20: open(filepath, 'w') truncates the file (and would create it).
OpenWriteOk ==
    /\ pc = "open_w"
    /\ fs' = [p \in DOMAIN fs \cup {target} |-> IF p = target THEN <<>> ELSE fs[p]]
    /\ wopened' = wopened \cup {[path |-> target, before |-> fs[target]]}
    /\ pc' = "write"
    /\ UNCHANGED <<run, stack, go_files, idx, content, updated_content, ret,
                   updated_count, stdout, orig, start, prev, attempts, fails, errs, results>>

\* Line 20 raises: the file is not opened and keeps its content.
OpenWriteFail ==
    /\ pc = "open_w"
    /\ fails < MaxFail
    /\ fails' = fails + 1
    /\ errs' = errs \cup {<<filepath, "open">>}
    /\ pc' = "except"
    /\ UNCHANGED <<fs, run, stack, go_files, idx, content, updated_content, ret,
                   updated_count, stdout, orig, start, prev, wopened, attempts, results>>

\* Line 21 and the end of the with block: the new content is written.
WriteOk ==
    /\ pc = "write"
    /\ fs' = [fs EXCEPT ![target] = updated_content]
    /\ pc' = "print_updated"
    /\ UNCHANGED <<run, stack, go_files, idx, content, updated_content, ret,
                   updated_count, stdout, orig, start, prev, wopened, attempts, fails, errs, results>>

\* How many characters of text a failed write can leave in the file: any
\* number short of all, here within MaxCut of either end.
Cuts(text) ==
    { k \in 0..(Len(text) - 1) : k < MaxCut \/ k >= Len(text) - MaxCut }

\* Line 21 or the close raises: only the first k characters reached the file.
WriteFail ==
    /\ pc = "write"
    /\ fails < MaxFail
    /\ fails' = fails + 1
    /\ \E k \in Cuts(updated_content) :
          fs' = [fs EXCEPT ![target] = SubSeq(updated_content, 1, k)]
    /\ errs' = errs \cup {<<filepath, "write">>}
    /\ pc' = "except"
    /\ UNCHANGED <<run, stack, go_files, idx, content, updated_content, ret,
                   updated_count, stdout, orig, start, prev, wopened, attempts, results>>

\* Lines 22-23.
PrintUpdated ==
    /\ pc = "print_updated"
    /\ stdout' = Append(stdout, <<"Updated", filepath>>)
    /\ ret' = TRUE
    /\ results' = Append(results, TRUE)
    /\ pc' = "returned"
    /\ content' = <<>>
    /\ updated_content' = <<>>
    /\ UNCHANGED <<fs, run, stack, go_files, idx, updated_count,
                   orig, start, prev, wopened, attempts, fails, errs>>

\* Mutant of Except: the error is reported and ends the run.
ExceptAbort ==
    /\ pc = "except"
    /\ stdout' = Append(stdout, <<"Error", filepath>>)
    /\ ret' = FALSE
    /\ results' = Append(results, FALSE)
    /\ pc' = "done"
    /\ content' = <<>>
    /\ updated_content' = <<>>
    /\ UNCHANGED <<fs, run, stack, go_files, idx, updated_count,
                   orig, start, prev, wopened, attempts, fails, errs>>

\* Lines 25-27.
Except ==
    /\ pc = "except"
    /\ stdout' = Append(stdout, <<"Error", filepath>>)
    /\ ret' = FALSE
    /\ results' = Append(results, FALSE)
    /\ pc' = "returned"
    /\ content' = <<>>
    /\ updated_content' = <<>>
    /\ UNCHANGED <<fs, run, stack, go_files, idx, updated_count,
                   orig, start, prev, wopened, attempts, fails, errs>>

(* --------------------------- main: loop, summary ----------------------- *)
\* Mutant of Count: every processed file is counted.
CountAll ==
    /\ pc = "returned"
    /\ updated_count' = updated_count + 1
    /\ idx' = idx + 1
    /\ pc' = "loop"
    /\ UNCHANGED <<fs, run, stack, go_files, content, updated_content, ret,
                   stdout, orig, start, prev, wopened, attempts, fails, errs, results>>

\* Lines 39-40: the result of the call is counted.
Count ==
    /\ pc = "returned"
    /\ updated_count' = IF ret THEN updated_count + 1 ELSE updated_count
    /\ idx' = idx + 1
    /\ pc' = "loop"
    /\ UNCHANGED <<fs, run, stack, go_files, content, updated_content, ret,
                   stdout, orig, start, prev, wopened, attempts, fails, errs, results>>

\* Line 42.
Summary ==
    /\ pc = "summary"
    /\ stdout' = Append(stdout, <<"Summary", updated_count>>)
    /\ pc' = "done"
    /\ UNCHANGED <<fs, run, stack, go_files, idx, content, updated_content, ret,
                   updated_count, orig, start, prev, wopened, attempts, fails, errs, results>>

\* Lines 44-45, a second time: the script is run again on the tree the first
\* run left.
RunAgain ==
    /\ pc = "done"
    /\ run = "first"
    /\ run' = "second"
    /\ prev' = [ran |-> TRUE, fs |-> fs, stdout |-> stdout]
    /\ start' = fs
    /\ pc' = "walk"
    /\ stack' = <<WalkRoot>>
    /\ go_files' = <<>>
    /\ idx' = 1
    /\ ret' = FALSE
    /\ updated_count' = 0
    /\ stdout' = <<>>
    /\ wopened' = {}
    /\ attempts' = <<>>
    /\ errs' = {}
    /\ results' = <<>>
    /\ UNCHANGED <<fs, content, updated_content, orig, fails>>

Next ==
    \/ WalkDir
    \/ WalkEnd
    \/ ForNext
    \/ ReadOk
    \/ ReadFail
    \/ Replace
    \/ Compare
    \/ OpenWriteOk
    \/ OpenWriteFail
    \/ WriteOk
    \/ WriteFail
    \/ PrintUpdated
    \/ Except
    \/ Count
    \/ Summary
    \/ RunAgain

Spec == Init /\ [][Next]_vars

\* The interpreter runs the script to its end: a step that can be taken is taken.
FairSpec == Spec /\ WF_vars(Next)

(* ======================================================================= *)
(* Properties                                                              *)
(* ======================================================================= *)
\* text holds the old path somewhere.
HasOld(text) ==
    \E i \in 1..(Len(text) - Len(OLD_PATH) + 1) :
        \A k \in 1..Len(OLD_PATH) : text[i + k - 1] = OLD_PATH[k]

\* name ends with ".go".
EndsGo(name) ==
    /\ Len(name) >= 3
    /\ name[Len(name) - 2] = "."
    /\ name[Len(name) - 1] = "g"
    /\ name[Len(name)] = "o"

\* p (absolute) lies under the working directory.
InTree(p) == Len(p) > Len(Cwd) /\ \A k \in 1..Len(Cwd) : p[k] = Cwd[k]

\* The candidate files of a tree, and the path the walk gives each.
Candidates(tree) == { p \in DOMAIN tree : InTree(p) /\ EndsGo(p[Len(p)]) }
Rel(p) == <<DOT>> \o [k \in 1..(Len(p) - Len(Cwd)) |-> p[Len(Cwd) + k]]

\* The files opened for writing in this run.
Written == { w.path : w \in wopened }

\* The lines of an output of a given kind.
Lines(out, kind) == { i \in 1..Len(out) : out[i][1] = kind }
Reported(out, kind, p) == \E i \in Lines(out, kind) : out[i][2] = Rel(p)

\* after is before with the new path at every place of the old one and all
\* the rest unchanged.
IsSubstitution(before, after) ==
    LET occ == { i \in 1..(Len(before) - Len(OLD_PATH) + 1) :
                   \A k \in 1..Len(OLD_PATH) : before[i + k - 1] = OLD_PATH[k] }
        d == Len(OLD_PATH) - Len(NEW_PATH)
        shift(i) == d * Cardinality({ j \in occ : j < i })
        covered(i) == \E j \in occ : j <= i /\ i < j + Len(OLD_PATH)
    IN  /\ Len(after) = Len(before) - d * Cardinality(occ)
        /\ \A j \in occ : \A k \in 1..Len(NEW_PATH) :
               after[j - shift(j) + k - 1] = NEW_PATH[k]
        /\ \A i \in 1..Len(before) :
               ~covered(i) => after[i - shift(i)] = before[i]

\* C1: a candidate file that does not hold the old path is never opened for
\* writing, keeps its content and is not reported as updated; every file
\* opened for writing held the old path just before.
C1_NoSpuriousWrite ==
    /\ \A w \in wopened : HasOld(w.before)
    /\ \A p \in Candidates(start) :
          ~HasOld(start[p]) =>
              /\ p \notin Written
              /\ p \in DOMAIN fs /\ fs[p] = start[p]
              /\ ~Reported(stdout, "Updated", p)

\* C1 witness: a run has ended in which one candidate that held text without
\* the old path was processed and another file was written.
C1_Witness ==
    /\ pc = "done"
    /\ Written # {}
    /\ \E p \in Candidates(start) :
          /\ ~HasOld(start[p]) /\ start[p] # <<>>
          /\ Rel(p) \in { attempts[i] : i \in 1..Len(attempts) }

C4_Footprint ==
    /\ Written \subseteq Candidates(orig)
    /\ \A i \in 1..Len(attempts) : Resolve(attempts[i]) \in Candidates(orig)
    /\ DOMAIN fs = DOMAIN orig
    /\ \A p \in DOMAIN orig \ Candidates(orig) : fs[p] = orig[p]

\* C4 witness: a run has ended that rewrote a candidate while a file that is
\* no candidate holds the old path.
C4_Witness ==
    /\ pc = "done"
    /\ Lines(stdout, "Updated") # {}
    /\ \E p \in DOMAIN fs \ Candidates(orig) : HasOld(fs[p])

\* The files of the list whose processing has returned.
Returned == { i \in 1..Len(go_files) : i <= Len(results) }

\* C5: a file whose read failed keeps its content; once its processing has
\* returned, an error line names it and the result is False; and when the run
\* has ended every file of the list was processed.
C5_ReadFailure ==
    /\ \A e \in errs :
          e[2] = "read" =>
              /\ fs[Resolve(e[1])] = start[Resolve(e[1])]
              /\ Resolve(e[1]) \notin Written
              /\ \A i \in Returned :
                    go_files[i] = e[1] =>
                        /\ ~results[i]
                        /\ \E k \in Lines(stdout, "Error") : stdout[k][2] = e[1]
                        /\ \A k \in Lines(stdout, "Updated") : stdout[k][2] # e[1]
    /\ pc = "done" /\ errs # {} => attempts = go_files /\ Len(results) = Len(go_files)

\* C5 witness: a run has ended in which the read of the first file failed,
\* that file holds the old path, and a later file was rewritten.
C5_Witness ==
    /\ pc = "done"
    /\ Len(go_files) >= 2
    /\ <<go_files[1], "read">> \in errs
    /\ HasOld(fs[Resolve(go_files[1])])
    /\ results[2]

\* What holds when a run has ended: each file of the list was processed
\* once, in turn, and the last line of output is the summary.
RunComplete ==
    /\ attempts = go_files
    /\ Len(results) = Len(go_files)
    /\ stdout # <<>>
    /\ stdout[Len(stdout)][1] = "Summary"
    /\ Lines(stdout, "Summary") = {Len(stdout)}

\* C6: every run ends, whatever failed; when it has ended each file of the
\* list was processed exactly once and the summary is the last line printed.
C6_Terminates ==
    /\ [](pc = "done" => RunComplete)
    /\ <>(run = "second" /\ pc = "done")

\* C6 witness: a run has ended in which a file of two failed.
C6_Witness ==
    /\ pc = "done"
    /\ Len(go_files) >= 2
    /\ errs # {}
    /\ RunComplete

\* The files this run rewrote: opened for writing and now holding the whole
\* new content.
Rewritten == { w.path : w \in { v \in wopened : IsSubstitution(v.before, fs[v.path]) } }

\* C7: between two files and at the end, the count is the number of files
\* rewritten, of results True and of lines "Updated"; the summary prints it.
C7_Count ==
    /\ pc \in {"loop", "summary", "done"} =>
          /\ updated_count = Cardinality(Rewritten)
          /\ updated_count = Cardinality({ i \in 1..Len(results) : results[i] })
          /\ updated_count = Cardinality(Lines(stdout, "Updated"))
    /\ pc = "done" => stdout[Len(stdout)] = <<"Summary", updated_count>>

\* C7 witness: a run over two or more files has ended with one file rewritten
\* and one failed.
C7_Witness ==
    /\ pc = "done"
    /\ updated_count = 1
    /\ errs # {}
    /\ Len(go_files) >= 2

\* C8 as stated: when update_imports_in_file has returned, the file holds
\* its original content or the whole substituted content, and the result is
\* True exactly when it was rewritten.
C8_Original ==
    pc = "returned" =>
        /\ \/ fs[target] = start[target]
           \/ IsSubstitution(start[target], fs[target])
        /\ ret <=> (fs[target] # start[target])

\* C8 witness of the divergence: a call has returned False and left the file
\* with neither content.
C8_Truncated ==
    /\ pc = "returned"
    /\ ~ret
    /\ fs[target] # start[target]
    /\ ~IsSubstitution(start[target], fs[target])

\* The file being processed, if any.
Current == IF pc \in {"read", "replace", "compare", "open_w", "write",
                       "print_updated", "except", "returned"}
           THEN {Resolve(go_files[idx])} ELSE {}

\* A file whose write is not complete: it holds neither the content it had
\* when the run began nor the whole substituted content.
Incomplete(p) == fs[p] # start[p] /\ ~IsSubstitution(start[p], fs[p])

\* C9 as stated: at every point of a run the files not yet reached hold the
\* content they had when the run began, and no file but the one being
\* processed is in an incomplete-write state.
C9_Original ==
    \A i \in 1..Len(go_files) :
        LET p == Resolve(go_files[i])
        IN  /\ (i > idx \/ (i = idx /\ Current = {})) => fs[p] = start[p]
            /\ p \notin Current => ~Incomplete(p)

\* C9, the part that holds whatever fails: the files not yet reached hold the
\* content they had when the run began; a step changes the content of the
\* current file only, so a file whose processing has returned is never
\* changed again.
C9_Isolation ==
    /\ [](\A i \in 1..Len(go_files) :
            (i > idx \/ (i = idx /\ Current = {})) =>
                fs[Resolve(go_files[i])] = start[Resolve(go_files[i])])
    /\ [][\A p \in DOMAIN fs :
            (p \notin DOMAIN fs' \/ fs'[p] # fs[p]) =>
                /\ p \in Current
                /\ pc \in {"open_w", "write"}]_vars

\* C10: once the walk is over, the list holds, once each, exactly the files
\* under the working directory whose name ends with ".go", as the tree was
\* when the run began; no file is processed while the list is being built.
C10_Discovery ==
    /\ pc # "walk" =>
          /\ { go_files[i] : i \in 1..Len(go_files) } = { Rel(p) : p \in Candidates(start) }
          /\ Len(go_files) = Cardinality(Candidates(start))
    /\ pc = "walk" =>
          /\ attempts = <<>>
          /\ wopened = {}
          /\ fs = start

\* C10 witness: a run has ended whose list holds the file in the directory
\* d.go of the hidden directory, in a tree that also holds a file that is no
\* candidate.
C10_Witness ==
    /\ pc = "done"
    /\ \E i \in 1..Len(go_files) : Len(go_files[i]) = 4
    /\ DOMAIN fs \ Candidates(start) # {}

====
